---- MODULE Spec2Model ----
(***************************************************************************)
(* A model of pero_ocr/document_ocr/layout.py: the page layout entity      *)
(* model (PageLayout, RegionLayout, TextLine), its PAGE-XML codec, its     *)
(* logits snapshot, and the alignment-driven word geometry of the ALTO    *)
(* export (narrow_label, the word/gap boundary walk, the projection onto   *)
(* the crop grid).                                                         *)
(*                                                                         *)
(* Conventions.  A Python str that the code iterates (a transcription) is  *)
(* a sequence of one-character strings; identifiers are atomic strings.    *)
(* An attribute that may be None is a record [has, val].  Frame and column *)
(* indices are 0-based as in the code; TLA+ sequences are 1-based, so      *)
(* frame a of a path p is p[a+1].  An uncaught Python exception is an      *)
(* outcome named after its class.                                          *)
(***************************************************************************)
EXTENDS Integers, Sequences, FiniteSets, TLC

VARIABLES
  \* --- a call of narrow_label (layout.py 523-552) ---
  nl_label,       \* the label list, rewritten in place
  nl_idx_of_last, \* the blank index
  nl_liberal,     \* on_one_liberal
  nl_pc,          \* "call" -> "returned"
  \* --- one line inside to_altoxml_string (layout.py 271-334) ---
  characters,     \* line.characters: the alphabet, blank index = Len(characters)
  transcription,  \* line.transcription, a sequence of characters
  aligned,        \* the label path returned by force_align, narrowed in place
  grid_width,     \* np.shape(line_coords)[1]
  line_pc,        \* "aligned" -> "narrowed" -> "done"
  line_out,       \* the outcome and the String / SP elements written for the line
  \* --- a PageLayout and its PAGE-XML files ---
  file,           \* the document given to from_pagexml
  layout,         \* the PageLayout: [id, page_size, regions]
  load_status,    \* how from_pagexml ended
  xml_out,        \* what to_pagexml_string returned: [status, doc]
  layout2,        \* a fresh PageLayout that reads xml_out
  reload_status,  \* how that second from_pagexml ended
  page_pc,        \* "fresh" -> "loaded" -> "written" -> "reloaded"
  \* --- the logits snapshot and the ALTO export of a page ---
  saver,          \* the PageLayout whose logits are saved
  snapshot,       \* the pickled file: [status, dict]
  loader,         \* the PageLayout that loads the file and is exported
  logits_status,  \* how load_logits ended
  alto_out,       \* what to_altoxml_string returned: [status, print_space, lines]
  logits_pc,      \* "fresh" -> "saved" -> "loaded" -> "exported"
  \* --- a file read as ALTO from disk and from a string ---
  alto_file,      \* the document: [dialect, ns, alto, pagexml]
  alto_page,      \* the PageLayout given to from_altoxml
  alto_status,    \* how from_altoxml ended ("none" before the call)
  alto_str_page,  \* the PageLayout given to from_altoxml_string
  alto_str_status,\* how from_altoxml_string ended ("none" before the call)
  alto_xml_out    \* what to_pagexml_string returned for alto_page: [status, doc]

narrowVars == <<nl_label, nl_idx_of_last, nl_liberal, nl_pc>>

lineVars == <<characters, transcription, aligned, grid_width, line_pc, line_out>>

pageVars == <<file, layout, load_status, xml_out, layout2, reload_status, page_pc>>

logitsVars == <<saver, snapshot, loader, logits_status, alto_out, logits_pc>>

altoVars == <<alto_file, alto_page, alto_status, alto_str_page, alto_str_status,
              alto_xml_out>>

vars == <<narrowVars, lineVars, pageVars, logitsVars, altoVars>>

----------------------------------------------------------------------------
\* Bounds of the model.
MaxPath == 5
MaxIdx == 3
MaxFrames == 4
MaxText == 5
MaxGridHalves == 2
MaxAlto == 2

----------------------------------------------------------------------------
\* Generic helpers.

Range(s) == {s[k] : k \in DOMAIN s}

InSeq(x, s) == \E k \in DOMAIN s : s[k] = x

SeqsUpTo(S, n) == UNION {[1..m -> S] : m \in 0..n}

Min2(a, b) == IF a <= b THEN a ELSE b

Max2(a, b) == IF a >= b THEN a ELSE b

\* Python int(p / q) for q > 0: truncation toward zero.
TruncDiv(p, q) == IF p >= 0 THEN p \div q ELSE -((-p) \div q)

----------------------------------------------------------------------------
\* narrow_label (layout.py 523-552).

\* A narrowing that keeps the last frame of a run instead of the first.
NarrowFlushKeepsLast(label, repeating, last_char, fill) ==
  IF repeating = <<>> THEN label
  ELSE [k \in DOMAIN label |->
          IF k = repeating[Len(repeating)] THEN last_char
          ELSE IF InSeq(k, repeating) THEN fill
          ELSE label[k]]

\* The inner rewrite of lines 530-537 and 543-550: every frame collected in
\* repeating is set to fill, then the first of them gets last_char back.
NarrowFlush(label, repeating, last_char, fill) ==
  IF repeating = <<>> THEN label
  ELSE [k \in DOMAIN label |->
          IF k = repeating[1] THEN last_char
          ELSE IF InSeq(k, repeating) THEN fill
          ELSE label[k]]

\* One iteration of the for loop at line 526; st = [label, last_char, repeating],
\* i is the 1-based position, last_char = -1 stands for None.
NarrowStep(st, i, idx_of_last, fill) ==
  LET item == st.label[i]
      same == st.last_char = item /\ st.last_char # idx_of_last
      lab1 == IF same THEN st.label
              ELSE NarrowFlush(st.label, st.repeating, st.last_char, fill)
      rep1 == IF same THEN Append(st.repeating, i) ELSE st.repeating
      rep2 == IF st.last_char # item
              THEN (IF item # idx_of_last THEN <<i>> ELSE <<>>)
              ELSE rep1
  IN [label |-> lab1, last_char |-> item, repeating |-> rep2]

RECURSIVE NarrowLoop(_, _, _, _)
NarrowLoop(st, i, idx_of_last, fill) ==
  IF i > Len(st.label) THEN st
  ELSE NarrowLoop(NarrowStep(st, i, idx_of_last, fill), i + 1, idx_of_last, fill)

NarrowFill(idx_of_last, on_one_liberal) ==
  IF on_one_liberal THEN idx_of_last - 1 ELSE idx_of_last

narrow_label(label, idx_of_last, on_one_liberal) ==
  LET fill == NarrowFill(idx_of_last, on_one_liberal)
      st == NarrowLoop([label |-> label, last_char |-> -1, repeating |-> <<>>],
                       1, idx_of_last, fill)
  IN NarrowFlush(st.label, st.repeating, st.last_char, fill)

----------------------------------------------------------------------------
\* The word / gap boundary walk of to_altoxml_string (layout.py 286-312).

\* str.split() of line 287 on a sequence of characters; " " is the only
\* whitespace of the modelled alphabets.  Returns the sequence of words.
RECURSIVE SplitFrom(_, _, _, _)
SplitFrom(text, i, cur, acc) ==
  IF i > Len(text) THEN (IF cur = <<>> THEN acc ELSE Append(acc, cur))
  ELSE IF text[i] = " "
       THEN SplitFrom(text, i + 1, <<>>, IF cur = <<>> THEN acc ELSE Append(acc, cur))
       ELSE SplitFrom(text, i + 1, Append(cur, text[i]), acc)

Split(text) == SplitFrom(text, 1, <<>>, <<>>)

\* The locals of lines 288-294 at the start of a word's scan.
WalkStart(global_letter_counter) ==
  [local |-> 0, global |-> global_letter_counter, string_hpos |-> 0,
   string_width |-> 0, end_of_space |-> 0, final |-> FALSE, last |-> TRUE,
   brk |-> FALSE]

\* One iteration of the loop at line 296 on frame a (0-based) with label ali.
WalkStep(st, a, ali, blank, word_lenght) ==
  IF st.brk \/ ali = blank THEN st
  ELSE IF st.local > st.global
  THEN IF st.final
       THEN [st EXCEPT !.end_of_space = 4 * a, !.global = st.local,
                       !.last = FALSE, !.brk = TRUE]
       ELSE IF st.local - st.global = word_lenght
            THEN [st EXCEPT !.string_width = 4 * a - st.string_hpos,
                            !.final = TRUE, !.local = st.local + 1]
            ELSE [st EXCEPT !.local = st.local + 1]
  ELSE IF st.local - st.global = 0
       THEN [st EXCEPT !.string_hpos = 4 * a, !.local = st.local + 1]
       ELSE [st EXCEPT !.local = st.local + 1]

RECURSIVE WalkLoop(_, _, _, _, _)
WalkLoop(st, a, path, blank, word_lenght) ==
  IF a >= Len(path) THEN st
  ELSE WalkLoop(WalkStep(st, a, path[a + 1], blank, word_lenght),
                a + 1, path, blank, word_lenght)

\* A walk without the default of line 312 for a word the scan did not close.
WalkWordNoDefault(path, blank, word_lenght, global_letter_counter) ==
  WalkLoop(WalkStart(global_letter_counter), 0, path, blank, word_lenght)

\* Lines 288-312 for one word: the scan, then the "last" default of line 312.
WalkWord(path, blank, word_lenght, global_letter_counter) ==
  LET st == WalkLoop(WalkStart(global_letter_counter), 0, path, blank, word_lenght)
  IN IF st.last
     THEN [st EXCEPT !.string_width = 4 * Len(path) - st.string_hpos]
     ELSE st

----------------------------------------------------------------------------
\* The projection onto the crop grid (layout.py 314-334).

\* A slice bound of a[s:e] over n columns, as Python normalises it.
PyIndex(i, n) == IF i < 0 THEN Max2(i + n, 0) ELSE Min2(i, n)

\* The columns line_coords[:, s:e] selects out of n.
SliceCols(s, e, n) == {c \in 0..(n - 1) : PyIndex(s, n) <= c /\ c < PyIndex(e, n)}

\* int(x * lm_const) with lm_const = width / (4 * frames), lines 314, 320.  The
\* modelled grids make lm_const a multiple of 1/2, for which the float product
\* is exact.
Scale(x, width, frames) == TruncDiv(x * width, 4 * frames)

\* The x coordinate the grid holds in a column: a straight horizontal line
\* crop, one pixel per column.
GridX(c) == c

SetMin(S) == CHOOSE x \in S : \A y \in S : x <= y

SetMax(S) == CHOOSE x \in S : \A y \in S : x >= y

\* Lines 314-334 for word number w (0-based) of nwords, after its walk.
\* np.max / np.min of an empty selection raise ValueError (lines 323, 332);
\* lm_const divides by 4 * len(aligned) (line 314).
ProjectWord(word, walk, consumed, w, nwords, frames, width) ==
  LET hpos == walk.string_hpos - 1
      s == Scale(hpos, width, frames)
      e == s + Scale(walk.string_width, width, frames)
      cols == SliceCols(s, e, width)
      has_gap == w # nwords - 1
      gs == Scale(hpos + walk.string_width, width, frames)
      ge == gs + Scale(walk.end_of_space - (hpos + walk.string_width), width, frames)
      gcols == SliceCols(gs, ge, width)
      status == IF frames = 0 THEN "ZeroDivisionError"
                ELSE IF cols = {} THEN "ValueError"
                ELSE IF has_gap /\ gcols = {} THEN "ValueError"
                ELSE "ok"
  IN [content |-> word, consumed |-> consumed,
      string_hpos |-> walk.string_hpos, string_width |-> walk.string_width,
      end_of_space |-> walk.end_of_space, last |-> walk.last,
      start_col |-> IF frames = 0 THEN 0 ELSE s,
      stop_col |-> IF frames = 0 THEN 0 ELSE e,
      cols |-> IF frames = 0 THEN {} ELSE cols,
      has_gap |-> has_gap,
      gap_start |-> IF frames = 0 THEN 0 ELSE gs,
      gap_stop |-> IF frames = 0 THEN 0 ELSE ge,
      gap_cols |-> IF frames = 0 \/ ~has_gap THEN {} ELSE gcols,
      HPOS |-> IF status = "ok" THEN GridX(SetMin(cols)) ELSE 0,
      WIDTH |-> IF status = "ok" THEN GridX(SetMax(cols)) - GridX(SetMin(cols)) ELSE 0,
      status |-> status]

\* The loop of line 287 from word w on: each word is walked and projected; the
\* first exception ends the call.  acc = [status, strings].
RECURSIVE WordsFrom(_, _, _, _, _, _, _)
WordsFrom(words, w, global_letter_counter, path, blank, width, acc) ==
  IF w >= Len(words) THEN acc
  ELSE LET walk == WalkWord(path, blank, Len(words[w + 1]), global_letter_counter)
           rec == ProjectWord(words[w + 1], walk, global_letter_counter, w,
                              Len(words), Len(path), width)
           acc1 == [status |-> rec.status, strings |-> Append(acc.strings, rec)]
       IN IF rec.status # "ok" THEN acc1
          ELSE WordsFrom(words, w + 1, walk.global, path, blank, width, acc1)

\* Lines 286-334 for one line: global_letter_counter starts at 0.
ReconstructLine(text, path, blank, width) ==
  WordsFrom(Split(text), 0, 0, path, blank, width, [status |-> "ok", strings |-> <<>>])

----------------------------------------------------------------------------
\* The entity model (layout.py 21-47, 87-91) and the PAGE-XML codec.
\*
\* Coordinates are counted in halves of a pixel, so that the document can hold
\* "10.5"; heights are counted in twentieths of a pixel, so that both quarters
\* (exact floats) and tenths (what "%.1f" writes) are integers.

NoneStr == [has |-> FALSE, val |-> ""]

NoneSeq == [has |-> FALSE, val |-> <<>>]

Some(v) == [has |-> TRUE, val |-> v]

\* What line.logits or a key of the pickled dictionary can hold: a sparse
\* matrix (its rows; 0 is "not stored"), or the dictionary line id -> alphabet.
MatrixEntry(m) == [kind |-> "matrix", matrix |-> m, mapping |-> <<>>]

MappingEntry(f) == [kind |-> "mapping", matrix |-> <<>>, mapping |-> f]

NoneLogits == [has |-> FALSE, val |-> MatrixEntry(<<>>)]

\* TextLine.__init__ (layout.py 22-30) with only id given; id is optional
\* (a string or None).
NewTextLine(id) ==
  [id |-> id, baseline |-> NoneSeq, polygon |-> NoneSeq, heights |-> NoneSeq,
   transcription |-> NoneSeq, logits |-> NoneLogits, characters |-> NoneSeq]

\* RegionLayout.__init__ (layout.py 43-47).
NewRegionLayout(id, polygon) ==
  [id |-> id, polygon |-> polygon, lines |-> <<>>, transcription |-> NoneSeq]

\* Python round() of v/2: to the nearest integer, ties to the even one.
RoundHalfEven(v) ==
  LET lo == v \div 2
  IN IF v % 2 = 0 THEN lo ELSE IF lo % 2 = 0 THEN lo ELSE lo + 1

\* points_string_to_array (layout.py 505-509): int(round(float(x))) of every
\* number of the list.
points_string_to_array(pts) ==
  [k \in DOMAIN pts |-> <<2 * RoundHalfEven(pts[k][1]), 2 * RoundHalfEven(pts[k][2])>>]

\* get_coords_form_page_xml (layout.py 63-72) on a Coords / Baseline element
\* el = [has, kind, pts, bad]: kind "points" is the points attribute (bad: a
\* list that does not parse), kind "children" the Point child elements.
get_coords_form_page_xml(el) ==
  IF ~el.has THEN [status |-> "AttributeError", val |-> <<>>]
  ELSE IF el.kind = "points"
  THEN IF el.bad THEN [status |-> "ValueError", val |-> <<>>]
       ELSE [status |-> "ok", val |-> points_string_to_array(el.pts)]
  ELSE [status |-> "ok", val |-> el.pts]

\* The Unicode text of a TextEquiv element (layout.py 79-83, 141-146).  text =
\* [has, node, val]: has tells whether the element exists, node whether its
\* Unicode child holds a text node.  No TextEquiv leaves None; no text node
\* reads as None from lxml and becomes ''.
ReadTextEquiv(text) ==
  IF ~text.has THEN NoneSeq
  ELSE IF ~text.node THEN Some(<<>>)
  ELSE Some(text.val)

\* numpy float32 of an integer number of pixels (layout.py 122-128): exact up
\* to 2^24, then to the nearest multiple of 2 (ties to even) up to 2^25.
F32(x) ==
  LET m == IF x < 0 THEN -x ELSE x
      r == IF m <= 16777216 THEN m
           ELSE IF m % 2 = 0 THEN m
           ELSE IF ((m - 1) \div 2) % 2 = 0 THEN m - 1 ELSE m + 1
  IN IF x < 0 THEN -r ELSE r

\* A number of pixels in twentieths.
Px(n) == 20 * n

\* Lines 111-131: the heights a custom attribute gives.  custom = [has, kind,
\* nums]: kind "v2" holds the JSON list after "heights_v2:", kind "legacy"
\* mentions "heights" and nums are its digit runs (re.findall("\d+")), kind
\* "other" mentions neither.
DecodeHeights(custom) ==
  IF ~custom.has \/ custom.kind = "other" THEN NoneSeq
  ELSE IF custom.kind = "v2" THEN Some(custom.nums)
  ELSE LET n == custom.nums
       IN IF Len(n) = 4 THEN Some(<<Px(F32(n[1])), Px(F32(n[3]))>>)
          ELSE IF Len(n) = 3 THEN Some(<<Px(F32(n[2])), Px(F32(n[3] - n[1]))>>)
          ELSE Some([k \in DOMAIN n |-> Px(n[k])])

\* Lines 110-146 for one TextLine element.
LoadLine(el) ==
  IF ~el.id.has THEN [status |-> "KeyError", line |-> NewTextLine(NoneStr)]
  ELSE
    LET l0 == [NewTextLine(el.id) EXCEPT !.heights = DecodeHeights(el.custom)]
        b == get_coords_form_page_xml(el.baseline)
        c == get_coords_form_page_xml(el.coords)
    IN IF el.baseline.has /\ b.status # "ok" THEN [status |-> b.status, line |-> l0]
       ELSE IF el.coords.has /\ c.status # "ok" THEN [status |-> c.status, line |-> l0]
       ELSE [status |-> "ok",
             line |-> [l0 EXCEPT
                         !.baseline = IF el.baseline.has THEN Some(b.val) ELSE NoneSeq,
                         !.polygon = IF el.coords.has THEN Some(c.val) ELSE NoneSeq,
                         !.transcription = ReadTextEquiv(el.text)]]

RECURSIVE LoadLines(_, _, _)
LoadLines(els, i, acc) ==
  IF i > Len(els) THEN [status |-> "ok", lines |-> acc]
  ELSE LET r == LoadLine(els[i])
       IN IF r.status # "ok" THEN [status |-> r.status, lines |-> acc]
          ELSE LoadLines(els, i + 1, Append(acc, r.line))

\* get_region_from_page_xml (layout.py 75-84): the coordinates are read before
\* the id.
get_region_from_page_xml(el) ==
  LET c == get_coords_form_page_xml(el.coords)
  IN IF c.status # "ok" THEN [status |-> c.status, region |-> NewRegionLayout("", <<>>)]
     ELSE IF ~el.id.has THEN [status |-> "KeyError", region |-> NewRegionLayout("", <<>>)]
     ELSE [status |-> "ok",
           region |-> [NewRegionLayout(el.id.val, c.val) EXCEPT
                         !.transcription = ReadTextEquiv(el.text)]]

\* The loop of lines 106-149: a region is appended once all its lines are read;
\* an exception leaves the regions appended so far.
RECURSIVE LoadRegions(_, _, _)
LoadRegions(els, i, acc) ==
  IF i > Len(els) THEN [status |-> "ok", regions |-> acc]
  ELSE LET r == get_region_from_page_xml(els[i])
           ls == LoadLines(els[i].lines, 1, <<>>)
       IN IF r.status # "ok" THEN [status |-> r.status, regions |-> acc]
          ELSE IF ls.status # "ok" THEN [status |-> ls.status, regions |-> acc]
          ELSE LoadRegions(els, i + 1,
                           Append(acc, [r.region EXCEPT !.lines = ls.lines]))

\* from_pagexml (layout.py 98-149) on a PageLayout self = [id, page_size,
\* regions]: id and page_size are assigned first, then the regions appended.
from_pagexml(self, doc) ==
  LET r == LoadRegions(doc.regions, 1, self.regions)
  IN [status |-> r.status,
      layout |-> [id |-> Some(doc.imageFilename),
                  page_size |-> <<doc.imageHeight, doc.imageWidth>>,
                  regions |-> r.regions]]

\* PageLayout.__init__ (layout.py 88-91) without a file.
NewPageLayout == [id |-> NoneStr, page_size |-> <<0, 0>>, regions |-> <<>>]

\* "{},{}".format(int(coord[0]), int(coord[1])) (layout.py 53, 171, 177): the
\* coordinates truncated toward zero, as the points attribute holds them.
IntPoints(pts) ==
  [k \in DOMAIN pts |-> <<2 * TruncDiv(pts[k][1], 2), 2 * TruncDiv(pts[k][2], 2)>>]

\* The Coords / Baseline element written for a point list: the points
\* attribute; of an empty list it is "", which does not parse.
WritePoints(pts) ==
  [has |-> TRUE, kind |-> "points", pts |-> IntPoints(pts), bad |-> pts = <<>>]

\* An element absent from the document, and a Coords element without a points
\* attribute and without Point children.
AbsentCoords == [has |-> FALSE, kind |-> "points", pts |-> <<>>, bad |-> FALSE]

BareCoords == [has |-> TRUE, kind |-> "children", pts |-> <<>>, bad |-> FALSE]

\* The TextEquiv / Unicode elements written for a transcription (layout.py
\* 56-59, 181-184): none for None; text = '' serialises to an element without
\* a text node.
WriteTextEquiv(text_value) ==
  IF ~text_value.has THEN [has |-> FALSE, node |-> FALSE, val |-> <<>>]
  ELSE [has |-> TRUE, node |-> text_value.val # <<>>, val |-> text_value.val]

\* "{:.1f}" of a height (layout.py 167), in twentieths: a multiple of a tenth
\* is kept, a quarter (x.25, x.75) is a tie and goes to the even tenth.
Fmt1f(v) ==
  LET m == IF v < 0 THEN -v ELSE v
      r == IF m % 2 = 0 THEN m
           ELSE IF ((m - 1) \div 2) % 2 = 0 THEN m - 1 ELSE m + 1
  IN IF v < 0 THEN -r ELSE r

\* Lines 164-184 for one line: set("id", line.id) at 165 raises TypeError for
\* a line whose id is None; heights[0] and heights[1] at 167 raise IndexError
\* on a shorter list; the Coords element is written whether or not there is a
\* polygon.
WriteLine(line) ==
  IF ~line.id.has
  THEN [status |-> "TypeError", el |-> <<>>]
  ELSE IF line.heights.has /\ Len(line.heights.val) < 2
  THEN [status |-> "IndexError", el |-> <<>>]
  ELSE [status |-> "ok",
        el |-> [id |-> line.id,
                custom |-> IF line.heights.has
                           THEN [has |-> TRUE, kind |-> "v2",
                                 nums |-> <<Fmt1f(line.heights.val[1]),
                                            Fmt1f(line.heights.val[2])>>]
                           ELSE [has |-> FALSE, kind |-> "other", nums |-> <<>>],
                coords |-> IF line.polygon.has THEN WritePoints(line.polygon.val)
                           ELSE BareCoords,
                baseline |-> IF line.baseline.has THEN WritePoints(line.baseline.val)
                             ELSE AbsentCoords,
                text |-> WriteTextEquiv(line.transcription)]]

RECURSIVE WriteLines(_, _, _)
WriteLines(lines, i, acc) ==
  IF i > Len(lines) THEN [status |-> "ok", els |-> acc]
  ELSE LET r == WriteLine(lines[i])
       IN IF r.status # "ok" THEN [status |-> r.status, els |-> acc]
          ELSE WriteLines(lines, i + 1, Append(acc, r.el))

\* RegionLayout.to_page_xml (layout.py 49-60) and the lines of the region.
WriteRegion(region) ==
  LET ls == WriteLines(region.lines, 1, <<>>)
  IN [status |-> ls.status,
      el |-> [id |-> Some(region.id), coords |-> WritePoints(region.polygon),
              text |-> WriteTextEquiv(region.transcription), lines |-> ls.els]]

RECURSIVE WriteRegions(_, _, _)
WriteRegions(regions, i, acc) ==
  IF i > Len(regions) THEN [status |-> "ok", els |-> acc]
  ELSE LET r == WriteRegion(regions[i])
       IN IF r.status # "ok" THEN [status |-> r.status, els |-> acc]
          ELSE WriteRegions(regions, i + 1, Append(acc, r.el))

EmptyDoc == [imageFilename |-> "", imageHeight |-> 0, imageWidth |-> 0, regions |-> <<>>]

\* to_pagexml_string (layout.py 151-186): the document written for a layout;
\* lxml refuses None as the imageFilename attribute.
to_pagexml_string(self) ==
  LET rs == WriteRegions(self.regions, 1, <<>>)
  IN IF ~self.id.has THEN [status |-> "TypeError", doc |-> EmptyDoc]
     ELSE IF rs.status # "ok" THEN [status |-> rs.status, doc |-> EmptyDoc]
     ELSE [status |-> "ok",
           doc |-> [imageFilename |-> self.id.val,
                    imageHeight |-> self.page_size[1],
                    imageWidth |-> self.page_size[2],
                    regions |-> rs.els]]

----------------------------------------------------------------------------
\* The logits snapshot (layout.py 412-448).  The pickled dictionary is a
\* function from its keys to entries; pickle returns the values it was given.
\* A key is a line id (a string or None) or the string 'line_characters', so
\* keys are optional strings.

\* The key under which save_logits stores the alphabets (line 427).
LineCharactersKey == Some("line_characters")

\* dict(pairs) of a list of (key, value) pairs: a later pair replaces an
\* earlier one with the same key.
DictOf(pairs) ==
  [k \in {pairs[i][1] : i \in DOMAIN pairs} |->
     pairs[SetMax({i \in DOMAIN pairs : pairs[i][1] = k})][2]]

\* All lines of a layout in region order, as lines_iterator (466-469) yields.
RECURSIVE AllLines(_, _)
AllLines(regions, i) ==
  IF i > Len(regions) THEN <<>> ELSE regions[i].lines \o AllLines(regions, i + 1)

\* save_logits (layout.py 416-429): [status, dict]; a line without logits or
\* without characters raises before anything is written.
save_logits(self) ==
  LET lines == AllLines(self.regions, 1)
      logits_dict == DictOf([k \in DOMAIN lines |-> <<lines[k].id, lines[k].logits.val>>])
      characters_dict == DictOf([k \in DOMAIN lines |-> <<lines[k].id, lines[k].characters>>])
  IN IF \E k \in DOMAIN lines : ~lines[k].logits.has \/ ~lines[k].characters.has
     THEN [status |-> "Exception", dict |-> <<>>]
     ELSE [status |-> "ok",
           dict |-> [k \in DOMAIN logits_dict \cup {LineCharactersKey} |->
                       IF k = LineCharactersKey THEN MappingEntry(characters_dict)
                       ELSE logits_dict[k]]]

\* Lines 438-441: the alphabets of a snapshot; one without the mapping gives
\* None for every key.
SnapshotCharacters(logits_dict) ==
  IF LineCharactersKey \in DOMAIN logits_dict
  THEN logits_dict[LineCharactersKey]
  ELSE MappingEntry([k \in DOMAIN logits_dict |-> NoneSeq])

\* Lines 445-448 for one line: [status, line].  The logits are assigned before
\* the alphabet is looked up; indexing a matrix with a line id raises.
LoadLineLogits(line, logits_dict, chars) ==
  IF line.id \notin DOMAIN logits_dict THEN [status |-> "Exception", line |-> line]
  ELSE LET l1 == [line EXCEPT !.logits = [has |-> TRUE, val |-> logits_dict[line.id]]]
       IN IF chars.kind # "mapping" THEN [status |-> "IndexError", line |-> l1]
          ELSE IF line.id \notin DOMAIN chars.mapping
          THEN [status |-> "KeyError", line |-> l1]
          ELSE [status |-> "ok", line |-> [l1 EXCEPT !.characters = chars.mapping[line.id]]]

\* The loops of lines 443-448 from line j of region i on; st = [status, regions].
RECURSIVE LoadLogitsFrom(_, _, _, _, _)
LoadLogitsFrom(regions, i, j, logits_dict, chars) ==
  IF i > Len(regions) THEN [status |-> "ok", regions |-> regions]
  ELSE IF j > Len(regions[i].lines)
  THEN LoadLogitsFrom(regions, i + 1, 1, logits_dict, chars)
  ELSE LET r == LoadLineLogits(regions[i].lines[j], logits_dict, chars)
           regions1 == [regions EXCEPT ![i].lines[j] = r.line]
       IN IF r.status # "ok" THEN [status |-> r.status, regions |-> regions1]
          ELSE LoadLogitsFrom(regions1, i, j + 1, logits_dict, chars)

\* load_logits (layout.py 431-448): [status, layout].
load_logits(self, logits_dict) ==
  LET r == LoadLogitsFrom(self.regions, 1, 1, logits_dict, SnapshotCharacters(logits_dict))
  IN [status |-> r.status, layout |-> [self EXCEPT !.regions = r.regions]]

----------------------------------------------------------------------------
\* to_altoxml_string for a whole page (layout.py 193-361).

\* get_dense_logits (layout.py 32-35): every stored 0 becomes zero_logit_value.
get_dense_logits(m) ==
  [i \in DOMAIN m |-> [j \in DOMAIN m[i] |-> IF m[i][j] = 0 THEN -80 ELSE m[i][j]]]

Xs(pts) == {pts[k][1] : k \in DOMAIN pts}

Ys(pts) == {pts[k][2] : k \in DOMAIN pts}

\* Lines 236-246 and 262-269: HEIGHT, WIDTH, VPOS, HPOS of a point list.
BoxOf(pts) ==
  [HEIGHT |-> SetMax(Ys(pts)) - SetMin(Ys(pts)),
   WIDTH |-> SetMax(Xs(pts)) - SetMin(Xs(pts)),
   VPOS |-> SetMin(Ys(pts)),
   HPOS |-> SetMin(Xs(pts))]

\* Lines 228-231: the print space before the first region; page_size is in
\* pixels, the polygons in halves.
PrintSpaceStart(page_size) ==
  [HEIGHT |-> 0, WIDTH |-> 0, VPOS |-> 2 * page_size[1], HPOS |-> 2 * page_size[2]]

\* Lines 248-253: the print space after one more text block.
PrintSpaceStep(ps, tb) ==
  LET h == Max2(ps.VPOS + ps.HEIGHT, tb.VPOS + tb.HEIGHT)
      w == Max2(ps.HPOS + ps.WIDTH, tb.HPOS + tb.WIDTH)
      v == Min2(ps.VPOS, tb.VPOS)
      x == Min2(ps.HPOS, tb.HPOS)
  IN [HEIGHT |-> h - v, WIDTH |-> w - x, VPOS |-> v, HPOS |-> x]

\* The first exception lines 259-278 raise for a line with a transcription,
\* or "ok": np.array(None)[:, 1] and an empty array raise IndexError (259,
\* 262), len(None) TypeError (271), char_to_num[item] KeyError (276), and
\* None.toarray() or dict.toarray() AttributeError (33).
LinePrerequisites(line) ==
  IF ~line.baseline.has \/ line.baseline.val = <<>> THEN "IndexError"
  ELSE IF ~line.polygon.has \/ line.polygon.val = <<>> THEN "IndexError"
  ELSE IF ~line.characters.has THEN "TypeError"
  ELSE IF \E k \in DOMAIN line.transcription.val :
            ~InSeq(line.transcription.val[k], line.characters.val) THEN "KeyError"
  ELSE IF ~line.logits.has \/ line.logits.val.kind # "matrix" THEN "AttributeError"
  ELSE "ok"

RECURSIVE SumY(_, _)
SumY(pts, k) == IF k > Len(pts) THEN 0 ELSE pts[k][2] + SumY(pts, k + 1)

\* int(np.average(baseline[:, 1])) of line 259, in pixels, of points in halves.
IntAverageY(pts) == TruncDiv(SumY(pts, 1), 2 * Len(pts))

NoTextLine == [BASELINE |-> 0, box |-> BoxOf(<<<<0, 0>>>>), strings |-> <<>>]

\* Line 256: a line without transcription, or with '', is skipped.
LineIsSkipped(line) == ~line.transcription.has \/ line.transcription.val = <<>>

\* Lines 255-334 for one line; ch = [path, g] is what force_align returned and
\* the width of the crop grid in half alignment columns.
AltoLine(line, ch) ==
  IF LineIsSkipped(line) THEN [status |-> "ok", written |-> FALSE, el |-> NoTextLine]
  ELSE IF LinePrerequisites(line) # "ok"
  THEN [status |-> LinePrerequisites(line), written |-> FALSE, el |-> NoTextLine]
  ELSE LET blank == Len(line.characters.val)
           narrowed == narrow_label(ch.path, blank, FALSE)
           r == ReconstructLine(line.transcription.val, narrowed, blank,
                                ch.g * 2 * Len(ch.path))
       IN [status |-> r.status, written |-> TRUE,
           el |-> [BASELINE |-> IntAverageY(line.baseline.val),
                   box |-> BoxOf(line.polygon.val), strings |-> r.strings]]

\* The loops of lines 232-334 from line j of region i on.  choice[k] belongs
\* to the k-th line of the page, k counts the lines before (i, j); acc =
\* [status, print_space, lines].
RECURSIVE AltoFrom(_, _, _, _, _, _)
AltoFrom(regions, i, j, k, choice, acc) ==
  IF i > Len(regions) THEN acc
  ELSE IF j = 0
  THEN IF regions[i].polygon = <<>>
       THEN [acc EXCEPT !.status = "IndexError"]
       ELSE AltoFrom(regions, i, 1, k, choice,
                     [acc EXCEPT !.print_space =
                        PrintSpaceStep(acc.print_space, BoxOf(regions[i].polygon))])
  ELSE IF j > Len(regions[i].lines) THEN AltoFrom(regions, i + 1, 0, k, choice, acc)
  ELSE LET r == AltoLine(regions[i].lines[j], choice[k + 1])
           acc1 == [acc EXCEPT !.status = r.status,
                               !.lines = IF r.written THEN Append(acc.lines, r.el)
                                         ELSE acc.lines]
       IN IF r.status # "ok" THEN acc1
          ELSE AltoFrom(regions, i, j + 1, k + 1, choice, acc1)

\* Lines 336-354: the four margins written around the print space ps, in
\* halves of a pixel.
Margins(page_size, ps) ==
  [top |-> [HEIGHT |-> ps.VPOS, WIDTH |-> 2 * page_size[2], VPOS |-> 0, HPOS |-> 0],
   left |-> [HEIGHT |-> 2 * page_size[1], WIDTH |-> ps.HPOS, VPOS |-> 0, HPOS |-> 0],
   right |-> [HEIGHT |-> 2 * page_size[1],
              WIDTH |-> 2 * page_size[2] - (ps.HPOS + ps.WIDTH),
              VPOS |-> 0, HPOS |-> ps.HPOS + ps.WIDTH],
   bottom |-> [HEIGHT |-> 2 * page_size[1] - (ps.VPOS + ps.HEIGHT),
               WIDTH |-> 2 * page_size[2],
               VPOS |-> ps.VPOS + ps.HEIGHT, HPOS |-> 0]]

\* Lines 336-361 after the loops ended as r: [status, print_space, margins,
\* lines]; nothing is returned when an exception ended the call.
AltoResult(page_size, r) ==
  IF r.status = "ok"
  THEN [status |-> "ok", print_space |-> r.print_space,
        margins |-> Margins(page_size, r.print_space), lines |-> r.lines]
  ELSE [status |-> r.status, print_space |-> PrintSpaceStart(<<0, 0>>),
        margins |-> Margins(<<0, 0>>, PrintSpaceStart(<<0, 0>>)), lines |-> <<>>]

\* to_altoxml_string (layout.py 193-361).  "id_" + self.id at line 217 raises
\* TypeError for a page whose id is None, before any region is looked at; the
\* loops are evaluated once.
to_altoxml_string(self, choice) ==
  IF ~self.id.has
  THEN AltoResult(self.page_size,
                  [status |-> "TypeError",
                   print_space |-> PrintSpaceStart(self.page_size),
                   lines |-> <<>>])
  ELSE CHOOSE out \in
         {AltoResult(self.page_size, r) :
            r \in {AltoFrom(self.regions, 1, 0, 0, choice,
                            [status |-> "ok",
                             print_space |-> PrintSpaceStart(self.page_size),
                             lines |-> <<>>])}} : TRUE

----------------------------------------------------------------------------
\* Reading ALTO (layout.py 368-410).  A file is [dialect, ns, alto, pagexml]:
\* dialect "alto" has the root children Description and Layout and the content
\* alto, dialect "page" has the root child Page and the content pagexml; ns
\* tells whether the root tag carries a namespace.  ALTO attributes are whole
\* numbers of pixels.

\* element_schema (layout.py 497-502): without a namespace schema stays None
\* and '{' + None raises TypeError.
element_schema(f) == IF f.ns THEN "ok" ELSE "TypeError"

\* The loop of lines 399-406: the CONTENT of the String elements joined by " ".
RECURSIVE JoinWords(_, _)
JoinWords(strings, k) ==
  IF k > Len(strings) THEN <<>>
  ELSE IF k = 1 THEN strings[1] \o JoinWords(strings, 2)
  ELSE <<" ">> \o strings[k] \o JoinWords(strings, k + 1)

\* The four corners of lines 385-388 and 395-398, in halves of a pixel.
CornersOf(el) ==
  LET x0 == 2 * el.HPOS
      x1 == 2 * (el.HPOS + el.WIDTH)
      y0 == 2 * el.VPOS
      y1 == 2 * (el.VPOS + el.HEIGHT)
  IN <<<<x0, y0>>, <<x1, y0>>, <<x1, y1>>, <<x0, y1>>>>

\* Lines 393-407 for one TextLine element; line.attrib['BASELINE'] raises
\* KeyError when the attribute is missing.  The line gets no id.
AltoReadLine(el) ==
  IF ~el.BASELINE.has THEN [status |-> "KeyError", line |-> NewTextLine(NoneStr)]
  ELSE LET b == el.BASELINE.val
       IN [status |-> "ok",
           line |-> [NewTextLine(NoneStr) EXCEPT
                       !.baseline = Some(<<<<2 * el.HPOS, 2 * b>>,
                                           <<2 * (el.HPOS + el.WIDTH), 2 * b>>>>),
                       !.polygon = Some(CornersOf(el)),
                       !.heights = Some(<<Px(el.HEIGHT + el.VPOS - b), Px(b - el.VPOS)>>),
                       !.transcription = Some(JoinWords(el.strings, 1))]]

RECURSIVE AltoReadLines(_, _, _)
AltoReadLines(els, j, acc) ==
  IF j > Len(els) THEN [status |-> "ok", lines |-> acc]
  ELSE LET r == AltoReadLine(els[j])
       IN IF r.status # "ok" THEN [status |-> r.status, lines |-> acc]
          ELSE AltoReadLines(els, j + 1, Append(acc, r.line))

\* The loop of lines 383-410: a region is appended once its lines are read.
RECURSIVE AltoReadRegions(_, _, _)
AltoReadRegions(blocks, i, acc) ==
  IF i > Len(blocks) THEN [status |-> "ok", regions |-> acc]
  ELSE LET ls == AltoReadLines(blocks[i].lines, 1, <<>>)
       IN IF ls.status # "ok" THEN [status |-> ls.status, regions |-> acc]
          ELSE AltoReadRegions(blocks, i + 1,
                 Append(acc, [NewRegionLayout(blocks[i].ID, CornersOf(blocks[i]))
                                EXCEPT !.lines = ls.lines]))

\* from_altoxml (layout.py 371-410): [status, layout].  findall(Layout)[0]
\* raises IndexError on a root without a Layout child; the id is ID[3:], the
\* ID attribute being [head3, rest].
from_altoxml(self, f) ==
  IF element_schema(f) # "ok" THEN [status |-> "TypeError", layout |-> self]
  ELSE IF f.dialect # "alto" THEN [status |-> "IndexError", layout |-> self]
  ELSE LET r == AltoReadRegions(f.alto.blocks, 1, self.regions)
       IN [status |-> r.status,
           layout |-> [id |-> Some(f.alto.ID.rest),
                       page_size |-> <<f.alto.HEIGHT, f.alto.WIDTH>>,
                       regions |-> r.regions]]

\* from_altoxml_string (layout.py 368-369) hands the bytes to from_pagexml,
\* whose lines 100-102 look the Page element up among the root's children:
\* findall(Page)[0] raises IndexError on a root without a Page child.
from_altoxml_string(self, f) ==
  IF element_schema(f) # "ok" THEN [status |-> "TypeError", layout |-> self]
  ELSE IF f.dialect # "page" THEN [status |-> "IndexError", layout |-> self]
  ELSE from_pagexml(self, f.pagexml)

----------------------------------------------------------------------------
\* Inputs.

\* The label paths of the documented examples (blank index 5 and 2).
ExampleNarrow == [path |-> <<2, 2, 2, 5, 1, 1, 5, 5>>, idx_of_last |-> 5]

ExampleHiPath == <<0, 2, 2, 1, 2, 2, 2, 2>>

ExampleHiText == <<"h", "i">>

ExampleHiAlphabet == <<"h", "i">>

\* The alphabet of the enumerated lines: one letter and the space, blank = 2.
LineAlphabet == <<"h", " ">>

\* Non-empty transcriptions over the alphabet (line 256 skips empty ones).
LineTexts == SeqsUpTo(Range(LineAlphabet), MaxText) \ {<<>>}

\* Any path of the line's frame count over 0..blank: force_align is used as a
\* black box that returns one label per frame.
LinePaths(blank) == SeqsUpTo(0..blank, MaxFrames)

\* The crop grid has width g/2 columns per alignment column (4 per frame).
GridWidths(frames) == {g * 2 * frames : g \in 1..MaxGridHalves}

NarrowIdle ==
  /\ nl_label = <<>>
  /\ nl_idx_of_last = 0
  /\ nl_liberal = FALSE
  /\ nl_pc = "idle"

LineIdle ==
  /\ characters = <<>>
  /\ transcription = <<>>
  /\ aligned = <<>>
  /\ grid_width = 0
  /\ line_pc = "idle"
  /\ line_out = [status |-> "ok", strings |-> <<>>]

PageIdle ==
  /\ file = EmptyDoc
  /\ layout = NewPageLayout
  /\ load_status = "none"
  /\ xml_out = [status |-> "none", doc |-> EmptyDoc]
  /\ layout2 = NewPageLayout
  /\ reload_status = "none"
  /\ page_pc = "idle"

NoSnapshot == [status |-> "none", dict |-> <<>>]

NoAlto ==
  [status |-> "none", print_space |-> PrintSpaceStart(<<0, 0>>),
   margins |-> Margins(<<0, 0>>, PrintSpaceStart(<<0, 0>>)), lines |-> <<>>]

LogitsIdle ==
  /\ saver = NewPageLayout
  /\ snapshot = NoSnapshot
  /\ loader = NewPageLayout
  /\ logits_status = "none"
  /\ alto_out = NoAlto
  /\ logits_pc = "idle"

\* An ALTO document without a page, and the file of an idle reader.
EmptyAlto == [ID |-> [head3 |-> "", rest |-> ""], HEIGHT |-> 0, WIDTH |-> 0, blocks |-> <<>>]

NoFile == [dialect |-> "alto", ns |-> FALSE, alto |-> EmptyAlto, pagexml |-> EmptyDoc]

AltoIdle ==
  /\ alto_file = NoFile
  /\ alto_page = NewPageLayout
  /\ alto_status = "idle"
  /\ alto_str_page = NewPageLayout
  /\ alto_str_status = "idle"
  /\ alto_xml_out = [status |-> "none", doc |-> EmptyDoc]

----------------------------------------------------------------------------
\* PAGE-XML documents given to from_pagexml.

PtsAttr(pts) == [has |-> TRUE, kind |-> "points", pts |-> pts, bad |-> FALSE]

PtsChildren(pts) == [has |-> TRUE, kind |-> "children", pts |-> pts, bad |-> FALSE]

\* points="0,0 4,0 4,3", points="0.5,1.5 2.5,3.5 4.5,1", Point children with
\* x="0.5" y="1.5" ..., and a points attribute that does not parse.
PlainCoords == PtsAttr(<<<<0, 0>>, <<8, 0>>, <<8, 6>>>>)

HalfCoords == PtsAttr(<<<<1, 3>>, <<5, 7>>, <<9, 2>>>>)

ChildCoords == PtsChildren(<<<<1, 3>>, <<4, 5>>, <<8, 2>>>>)

BadCoords == [has |-> TRUE, kind |-> "points", pts |-> <<>>, bad |-> TRUE]

NoText == [has |-> FALSE, node |-> FALSE, val |-> <<>>]

EmptyText == [has |-> TRUE, node |-> FALSE, val |-> <<>>]

TextH == [has |-> TRUE, node |-> TRUE, val |-> <<"h">>]

NoCustom == [has |-> FALSE, kind |-> "other", nums |-> <<>>]

\* custom attributes: one without heights, heights_v2:[10.0,20.0] and
\* heights_v2:[10.25,3.75], and legacy "heights" strings with 0 to 5 numbers.
Customs ==
  {NoCustom, [has |-> TRUE, kind |-> "other", nums |-> <<>>]}
  \cup {[has |-> TRUE, kind |-> "v2", nums |-> n] : n \in {<<200, 400>>, <<205, 75>>}}
  \cup {[has |-> TRUE, kind |-> "legacy", nums |-> n] :
          n \in {<<>>, <<7>>, <<12, 18>>, <<5, 15, 25>>, <<30, 15, 25>>,
                 <<10, 0, 10, 30>>, <<1, 2, 3, 4, 5>>, <<16777217, 0, 5, 0>>}}

PlainLine(id) ==
  [id |-> Some(id), custom |-> NoCustom, baseline |-> PlainCoords,
   coords |-> PlainCoords, text |-> TextH]

LineEls ==
  [id : {Some("l1")}, custom : Customs, baseline : {PlainCoords},
   coords : {PlainCoords}, text : {TextH}]
  \cup [id : {Some("l1")}, custom : {NoCustom},
        baseline : {AbsentCoords, PlainCoords, ChildCoords},
        coords : {AbsentCoords, PlainCoords, HalfCoords, BareCoords, BadCoords},
        text : {NoText, EmptyText, TextH}]
  \cup {[PlainLine("l1") EXCEPT !.id = NoneStr]}

LineSeqs ==
  {<<>>} \cup {<<l>> : l \in LineEls}
  \cup {<<PlainLine("l2"), l>> : l \in LineEls}
  \cup {<<l, PlainLine("l2")>> : l \in LineEls}

PlainRegion(id) ==
  [id |-> Some(id), coords |-> PlainCoords, text |-> NoText,
   lines |-> <<PlainLine("l0")>>]

RegionEls ==
  [id : {Some("r1")}, coords : {PlainCoords}, text : {NoText}, lines : LineSeqs]
  \cup [id : {Some("r1"), NoneStr},
        coords : {AbsentCoords, PlainCoords, HalfCoords, ChildCoords, BareCoords, BadCoords},
        text : {NoText, EmptyText, TextH},
        lines : {<<>>, <<PlainLine("l1")>>}]

RegionSeqs ==
  {<<>>} \cup {<<r>> : r \in RegionEls}
  \cup {<<PlainRegion("r0"), r>> : r \in RegionEls}
  \cup {<<r, PlainRegion("r0")>> : r \in RegionEls}

Docs ==
  [imageFilename : {"p.jpg"}, imageHeight : {30}, imageWidth : {40}, regions : RegionSeqs]

----------------------------------------------------------------------------
\* narrow_label as a called function: any path over 0..idx_of_last.

NarrowInit ==
  /\ \/ /\ nl_idx_of_last \in 1..MaxIdx
        /\ nl_label \in SeqsUpTo(0..nl_idx_of_last, MaxPath)
     \/ /\ nl_idx_of_last = ExampleNarrow.idx_of_last
        /\ nl_label = ExampleNarrow.path
  /\ nl_liberal \in BOOLEAN
  /\ nl_pc = "call"
  /\ LineIdle
  /\ PageIdle
  /\ LogitsIdle
  /\ AltoIdle

NarrowCall ==
  /\ nl_pc = "call"
  /\ nl_label' = narrow_label(nl_label, nl_idx_of_last, nl_liberal)
  /\ nl_pc' = "returned"
  /\ UNCHANGED <<nl_idx_of_last, nl_liberal, lineVars, pageVars, logitsVars, altoVars>>

NarrowNext == NarrowCall

SpecNarrow == NarrowInit /\ [][NarrowNext]_vars

----------------------------------------------------------------------------
\* One line of to_altoxml_string from line 280 on: the path force_align
\* returned is narrowed (line 281), then every word is walked and projected.

LineInit ==
  /\ \/ /\ characters = LineAlphabet
        /\ transcription \in LineTexts
        /\ aligned \in LinePaths(Len(LineAlphabet))
     \/ /\ characters = ExampleHiAlphabet
        /\ transcription = ExampleHiText
        /\ aligned = ExampleHiPath
  /\ grid_width \in GridWidths(Len(aligned))
  /\ line_pc = "aligned"
  /\ line_out = [status |-> "ok", strings |-> <<>>]
  /\ NarrowIdle
  /\ PageIdle
  /\ LogitsIdle
  /\ AltoIdle

NarrowAligned ==
  /\ line_pc = "aligned"
  /\ aligned' = narrow_label(aligned, Len(characters), FALSE)
  /\ line_pc' = "narrowed"
  /\ UNCHANGED <<characters, transcription, grid_width, line_out, narrowVars, pageVars, logitsVars, altoVars>>

ReconstructWords ==
  /\ line_pc = "narrowed"
  /\ line_out' = ReconstructLine(transcription, aligned, Len(characters), grid_width)
  /\ line_pc' = "done"
  /\ UNCHANGED <<characters, transcription, aligned, grid_width, narrowVars, pageVars, logitsVars, altoVars>>

LineNext == NarrowAligned \/ ReconstructWords

SpecLine == LineInit /\ [][LineNext]_vars

----------------------------------------------------------------------------
\* A PageLayout reads a document, writes it back, and a fresh PageLayout
\* reads what was written.

PageInit ==
  /\ file \in Docs
  /\ layout = NewPageLayout
  /\ load_status = "none"
  /\ xml_out = [status |-> "none", doc |-> EmptyDoc]
  /\ layout2 = NewPageLayout
  /\ reload_status = "none"
  /\ page_pc = "fresh"
  /\ NarrowIdle
  /\ LineIdle
  /\ LogitsIdle
  /\ AltoIdle

FromPagexml ==
  /\ page_pc = "fresh"
  /\ LET r == from_pagexml(layout, file)
     IN /\ layout' = r.layout
        /\ load_status' = r.status
  /\ page_pc' = "loaded"
  /\ UNCHANGED <<file, xml_out, layout2, reload_status, narrowVars, lineVars, logitsVars, altoVars>>

ToPagexmlString ==
  /\ page_pc = "loaded"
  /\ load_status = "ok"
  /\ xml_out' = to_pagexml_string(layout)
  /\ page_pc' = "written"
  /\ UNCHANGED <<file, layout, load_status, layout2, reload_status, narrowVars, lineVars, logitsVars, altoVars>>

Reload ==
  /\ page_pc = "written"
  /\ xml_out.status = "ok"
  /\ LET r == from_pagexml(layout2, xml_out.doc)
     IN /\ layout2' = r.layout
        /\ reload_status' = r.status
  /\ page_pc' = "reloaded"
  /\ UNCHANGED <<file, layout, load_status, xml_out, narrowVars, lineVars, logitsVars, altoVars>>

PageNext == FromPagexml \/ ToPagexmlString \/ Reload

SpecPage == PageInit /\ [][PageNext]_vars

----------------------------------------------------------------------------
\* A page saves its logits, a page loads the file, and the page is exported
\* to ALTO.  The saver's logits and alphabets are what the OCR engine attached
\* to its lines; the loader is a page read from a PAGE-XML document.

\* Sparse logits of 2 frames over the alphabet "h", " " and the blank, and of
\* 3 frames over the alphabet "h" and the blank.
Matrix23 == <<<<-1, 0, -2>>, <<0, -3, -1>>>>

Matrix32 == <<<<-1, 0>>, <<0, -2>>, <<-3, -1>>>>

Alphabet1 == <<"h">>

\* What the engine left on a line: logits and characters, either may be None.
EngineOutputs ==
  {[logits |-> Some(MatrixEntry(Matrix23)), characters |-> Some(LineAlphabet)],
   [logits |-> Some(MatrixEntry(Matrix32)), characters |-> Some(Alphabet1)],
   [logits |-> NoneLogits, characters |-> Some(LineAlphabet)],
   [logits |-> Some(MatrixEntry(Matrix23)), characters |-> NoneSeq]}

LineIds == {"a", "b", "line_characters"}

TextHH == [has |-> TRUE, node |-> TRUE, val |-> <<"h", " ", "h">>]

HeightsV2 == [has |-> TRUE, kind |-> "v2", nums |-> <<200, 400>>]

LogitsLineEls ==
  [id : {Some(i) : i \in LineIds}, custom : {HeightsV2},
   baseline : {AbsentCoords, PlainCoords}, coords : {PlainCoords},
   text : {NoText, TextH, TextHH}]

ReadyLineEl(id) ==
  [id |-> Some(id), custom |-> HeightsV2, baseline |-> PlainCoords,
   coords |-> PlainCoords, text |-> TextH]

RegionOf(id, lines) ==
  [id |-> Some(id), coords |-> HalfCoords, text |-> NoText, lines |-> lines]

RegionAt(id, coords, lines) ==
  [id |-> Some(id), coords |-> coords, text |-> NoText, lines |-> lines]

\* points="2,10 6,10 6,14", and points="0,0 40,0 40,30": the whole page.
LowCoords == PtsAttr(<<<<4, 20>>, <<12, 20>>, <<12, 28>>>>)

WideCoords == PtsAttr(<<<<0, 0>>, <<80, 0>>, <<80, 60>>>>)

LoaderDocs ==
  [imageFilename : {"p.jpg"}, imageHeight : {30}, imageWidth : {40},
   regions : {<<RegionOf("r1", <<l>>)>> : l \in LogitsLineEls}
             \cup {<<RegionOf("r1", <<l, ReadyLineEl("b")>>)>> : l \in LogitsLineEls}
             \cup {<<RegionOf("r1", <<ReadyLineEl("a")>>), RegionAt("r2", c, <<l>>)>> :
                     l \in LogitsLineEls, c \in {LowCoords}}
             \cup {<<RegionAt("r1", c, <<>>), RegionOf("r2", <<>>)>> :
                     c \in {PlainCoords, LowCoords, WideCoords}}
             \cup {<<RegionAt("r1", c, <<>>)>> : c \in {PlainCoords, WideCoords}}]

SaverDocs ==
  [imageFilename : {"p.jpg"}, imageHeight : {30}, imageWidth : {40},
   regions : {<<RegionOf("r1", <<ReadyLineEl(i)>>)>> : i \in LineIds}
             \cup {<<RegionOf("r1", <<ReadyLineEl(i), ReadyLineEl("b")>>)>> :
                     i \in LineIds}]

\* The page with the engine's output e[k] attached to its k-th line.
RECURSIVE Attach(_, _, _, _)
Attach(regions, i, k, e) ==
  IF i > Len(regions) THEN regions
  ELSE Attach([regions EXCEPT ![i].lines =
                 [j \in DOMAIN regions[i].lines |->
                    [regions[i].lines[j] EXCEPT !.logits = e[k + j].logits,
                                                !.characters = e[k + j].characters]]],
              i + 1, k + Len(regions[i].lines), e)

PlainOutput == [logits |-> Some(MatrixEntry(Matrix23)), characters |-> Some(LineAlphabet)]

SaverPages ==
  {[p EXCEPT !.regions = Attach(p.regions, 1, 0, <<e, PlainOutput>>)] :
     p \in {from_pagexml(NewPageLayout, d).layout : d \in SaverDocs},
     e \in EngineOutputs}

\* Pages read from a document, one-line pages on which the engine left an
\* alphabet but no logits, and a page that was constructed and never loaded.
LoaderPages ==
  {from_pagexml(NewPageLayout, d).layout : d \in LoaderDocs}
  \cup {NewPageLayout}
  \cup {[p EXCEPT !.regions =
            Attach(p.regions, 1, 0,
                   <<[logits |-> NoneLogits, characters |-> Some(LineAlphabet)]>>)] :
          p \in {from_pagexml(NewPageLayout, d).layout :
                   d \in {e \in LoaderDocs :
                            Len(e.regions) = 1 /\ Len(e.regions[1].lines) = 1}}}

\* A file pickled without the 'line_characters' key.
LegacySnapshots ==
  {[status |-> "ok", dict |-> [k \in {Some("a"), Some("b")} |-> MatrixEntry(Matrix23)]]}

LogitsInit ==
  /\ saver \in SaverPages
  /\ snapshot \in {NoSnapshot} \cup LegacySnapshots
  /\ loader \in LoaderPages
  /\ logits_status = "none"
  /\ alto_out = NoAlto
  /\ logits_pc = "fresh"
  /\ NarrowIdle
  /\ LineIdle
  /\ PageIdle
  /\ AltoIdle

SaveLogits ==
  /\ logits_pc = "fresh"
  /\ snapshot = NoSnapshot
  /\ snapshot' = save_logits(saver)
  /\ logits_pc' = "saved"
  /\ UNCHANGED <<saver, loader, logits_status, alto_out, narrowVars, lineVars, pageVars, altoVars>>

LoadLogits ==
  /\ logits_pc \in {"fresh", "saved"}
  /\ snapshot.status = "ok"
  /\ LET r == load_logits(loader, snapshot.dict)
     IN /\ loader' = r.layout
        /\ logits_status' = r.status
  /\ logits_pc' = "loaded"
  /\ UNCHANGED <<saver, snapshot, alto_out, narrowVars, lineVars, pageVars, altoVars>>

NoChoice == [path |-> <<>>, g |-> 0]

\* What force_align (line 280) and the line cropper (line 284) can return for
\* a line: one label of 0..blank per frame of the logits, and a crop grid of
\* g/2 columns per alignment column.  Both are collaborators used as black
\* boxes.  A line that is skipped or raises before line 280 takes none.
ChoicesFor(line) ==
  IF LineIsSkipped(line) \/ LinePrerequisites(line) # "ok" THEN {NoChoice}
  ELSE [path : [1..Len(get_dense_logits(line.logits.val.matrix))
                  -> 0..Len(line.characters.val)],
        g : 1..MaxGridHalves]

RECURSIVE ChoiceSeqs(_, _)
ChoiceSeqs(lines, k) ==
  IF k > Len(lines) THEN {<<>>}
  ELSE {<<c>> \o rest : c \in ChoicesFor(lines[k]), rest \in ChoiceSeqs(lines, k + 1)}

ToAltoxmlString ==
  /\ logits_pc \in {"fresh", "saved", "loaded"}
  /\ \E choice \in ChoiceSeqs(AllLines(loader.regions, 1), 1) :
       alto_out' = to_altoxml_string(loader, choice)
  /\ logits_pc' = "exported"
  /\ UNCHANGED <<saver, snapshot, loader, logits_status, narrowVars, lineVars, pageVars, altoVars>>

LogitsNext == SaveLogits \/ LoadLogits \/ ToAltoxmlString

SpecLogits == LogitsInit /\ [][LogitsNext]_vars

----------------------------------------------------------------------------
\* A file is read by from_altoxml on one fresh PageLayout and by
\* from_altoxml_string on another; the first page is then written as PAGE-XML.

AltoLineEls ==
  [HPOS : {1}, WIDTH : {8}, VPOS : 0..MaxAlto, HEIGHT : 0..MaxAlto,
   BASELINE : {[has |-> FALSE, val |-> 0]} \cup {Some(b) : b \in 0..(2 * MaxAlto)},
   strings : {<<>>, <<<<"h">>>>, <<<<"h">>, <<"i">>>>}]

ReadyAltoLine ==
  [HPOS |-> 1, WIDTH |-> 8, VPOS |-> 5, HEIGHT |-> 6, BASELINE |-> Some(7),
   strings |-> <<<<"h">>, <<"i">>>>]

BlockOf(id, lines) ==
  [ID |-> id, HPOS |-> 1, VPOS |-> 2, WIDTH |-> 10, HEIGHT |-> 20, lines |-> lines]

AltoDocs ==
  [ID : {[head3 |-> "id_", rest |-> "p.jpg"]}, HEIGHT : {30}, WIDTH : {40},
   blocks : {<<>>}
            \cup {<<BlockOf("r1", <<l>>)>> : l \in AltoLineEls}
            \cup {<<BlockOf("r1", <<ReadyAltoLine, l>>)>> : l \in AltoLineEls}
            \cup {<<BlockOf("r1", <<ReadyAltoLine>>), BlockOf("r2", <<l>>)>> :
                    l \in AltoLineEls}]

AltoFiles ==
  [dialect : {"alto"}, ns : BOOLEAN, alto : AltoDocs, pagexml : {EmptyDoc}]
  \cup [dialect : {"page"}, ns : BOOLEAN, alto : {EmptyAlto},
        pagexml : {d \in Docs : Len(d.regions) = 2 /\ d.regions[1] = PlainRegion("r0")
                                /\ d.regions[2].lines = <<>>}]

AltoInit ==
  /\ alto_file \in AltoFiles
  /\ alto_page = NewPageLayout
  /\ alto_status = "none"
  /\ alto_str_page = NewPageLayout
  /\ alto_str_status = "none"
  /\ alto_xml_out = [status |-> "none", doc |-> EmptyDoc]
  /\ NarrowIdle
  /\ LineIdle
  /\ PageIdle
  /\ LogitsIdle

FromAltoxml ==
  /\ alto_status = "none"
  /\ LET r == from_altoxml(alto_page, alto_file)
     IN /\ alto_page' = r.layout
        /\ alto_status' = r.status
  /\ UNCHANGED <<alto_file, alto_str_page, alto_str_status, alto_xml_out,
                 narrowVars, lineVars, pageVars, logitsVars>>

FromAltoxmlString ==
  /\ alto_str_status = "none"
  /\ LET r == from_altoxml_string(alto_str_page, alto_file)
     IN /\ alto_str_page' = r.layout
        /\ alto_str_status' = r.status
  /\ UNCHANGED <<alto_file, alto_page, alto_status, alto_xml_out,
                 narrowVars, lineVars, pageVars, logitsVars>>

\* The page that from_altoxml was called on is written as PAGE-XML.
AltoToPagexmlString ==
  /\ alto_status \notin {"none", "idle"}
  /\ alto_xml_out.status = "none"
  /\ alto_xml_out' = to_pagexml_string(alto_page)
  /\ UNCHANGED <<alto_file, alto_page, alto_status, alto_str_page, alto_str_status,
                 narrowVars, lineVars, pageVars, logitsVars>>

AltoNext == FromAltoxml \/ FromAltoxmlString \/ AltoToPagexmlString

SpecAlto == AltoInit /\ [][AltoNext]_vars

----------------------------------------------------------------------------
\* Properties of narrow_label and of the boundary walk.

\* The frames (0-based) of a path that hold a non-blank label, in order.
NonBlankFrames(path, blank) ==
  SelectSeq([k \in 1..Len(path) |-> k - 1], LAMBDA a : path[a + 1] # blank)

\* res is orig with every frame that continues a run of one non-blank label
\* rewritten to fill, and every other frame kept.
NarrowedAs(orig, res, idx_of_last, fill) ==
  /\ Len(res) = Len(orig)
  /\ \A k \in DOMAIN orig :
       res[k] = IF orig[k] = idx_of_last THEN idx_of_last
                ELSE IF k > 1 /\ orig[k - 1] = orig[k] THEN fill
                ELSE orig[k]

\* C1: narrow_label keeps the first frame of every maximal run of adjacent,
\* identical, non-blank labels and rewrites the run's other frames to blank
\* (to blank - 1 when on_one_liberal is set); blank frames and single frames
\* are unchanged, separated occurrences are separate runs, the length is kept.
C1_NarrowKeepsRunStarts ==
  [][(nl_pc = "call" /\ nl_pc' = "returned")
       => NarrowedAs(nl_label, nl_label', nl_idx_of_last,
                     IF nl_liberal THEN nl_idx_of_last - 1 ELSE nl_idx_of_last)]_vars

C1_Witness ==
  /\ nl_pc = "returned"
  /\ nl_idx_of_last = 5
  /\ ~nl_liberal
  /\ nl_label = <<2, 5, 5, 5, 1, 5, 5, 5>>

\* The walk's result for one written word r of a line with narrowed path
\* `path`: nb are the non-blank frames, c the letters consumed before the word.
WordStartsAtFirstLetter(r, nb) ==
  r.consumed < Len(nb) => r.string_hpos = 4 * nb[r.consumed + 1]

WordEndsAtCompletion(r, nb) ==
  r.consumed + Len(r.content) < Len(nb)
    => r.string_width = 4 * nb[r.consumed + Len(r.content) + 1] - r.string_hpos

IsHiExample ==
  /\ transcription = ExampleHiText
  /\ characters = ExampleHiAlphabet
  /\ aligned = ExampleHiPath

\* C2 as stated: every word starts at 4 x the first non-blank frame with
\* seen - consumed = 0 and ends at 4 x the frame where seen - consumed reaches
\* its length; "hi" on [0,2,2,1,2,2,2,2] has columns [0,12).
C2_AsStated ==
  line_pc = "done" =>
    /\ \A w \in DOMAIN line_out.strings :
         LET r == line_out.strings[w]
             nb == NonBlankFrames(aligned, Len(characters))
         IN WordStartsAtFirstLetter(r, nb) /\ WordEndsAtCompletion(r, nb)
    /\ IsHiExample =>
         /\ line_out.strings[1].string_hpos = 0
         /\ line_out.strings[1].string_width = 12

\* C2, amended: the start is as stated (0 when no such frame exists); the end
\* column is 4 x the completion frame only when a further non-blank frame
\* follows it, and 4 x F otherwise, also for a word that never completes.
\* "hi" on [0,2,2,1,2,2,2,2] never completes: columns [0,32).
C2_WalkBoundaries ==
  line_pc = "done" =>
    /\ \A w \in DOMAIN line_out.strings :
         LET r == line_out.strings[w]
             nb == NonBlankFrames(aligned, Len(characters))
             closed == r.consumed + Len(r.content) + 1 < Len(nb)
         IN /\ WordStartsAtFirstLetter(r, nb)
            /\ r.consumed >= Len(nb) => r.string_hpos = 0
            /\ closed => /\ WordEndsAtCompletion(r, nb)
                         /\ r.end_of_space = 4 * nb[r.consumed + Len(r.content) + 2]
                         /\ ~r.last
            /\ ~closed => /\ r.string_hpos + r.string_width = 4 * Len(aligned)
                          /\ r.last
    /\ IsHiExample =>
         /\ line_out.strings[1].string_hpos = 0
         /\ line_out.strings[1].string_width = 32

C2_Witness ==
  /\ line_pc = "done"
  /\ IsHiExample
  /\ Len(line_out.strings) = 1
  /\ line_out.strings[1].string_width = 32

\* A written word or gap whose selected column range is empty.
HasEmptyRange(r) == r.cols = {} \/ (r.has_gap /\ r.gap_cols = {})

\* C9: whenever the column range of a word or of a gap is empty, the call
\* still completes and the box has zero area; it never ends in an error.
C9_EmptyRangeNoCrash ==
  (line_pc = "done" /\ Len(aligned) > 0) =>
    \A w \in DOMAIN line_out.strings :
      HasEmptyRange(line_out.strings[w]) =>
        /\ line_out.status = "ok"
        /\ line_out.strings[w].WIDTH = 0

\* A word that is not the transcription's last, completes, and is followed by
\* no non-blank frame.
ExhaustedAfter(r, nb) ==
  /\ r.has_gap
  /\ r.consumed + Len(r.content) + 1 = Len(nb)

\* C10: such a word gets end column 4 x F, every remaining word of the
\* transcription is written, and with zero width.
C10_ExhaustionZeroWidth ==
  line_pc = "done" =>
    \A w \in DOMAIN line_out.strings :
      LET r == line_out.strings[w]
          nb == NonBlankFrames(aligned, Len(characters))
      IN ExhaustedAfter(r, nb) =>
           /\ r.string_hpos + r.string_width = 4 * Len(aligned)
           /\ Len(line_out.strings) = Len(Split(transcription))
           /\ \A v \in (w + 1)..Len(line_out.strings) :
                line_out.strings[v].string_width = 0

----------------------------------------------------------------------------
\* Properties of the PAGE-XML codec.

\* An optional point list after the writer's integer conversion.
SamePoints(a, b) ==
  /\ a.has = b.has
  /\ a.has => IntPoints(a.val) = b.val

\* An optional height list against what "%.1f" of its two entries reads back.
SameHeights(a, b) ==
  /\ a.has = b.has
  /\ a.has => /\ Len(a.val) = 2
              /\ b.val = <<Fmt1f(a.val[1]), Fmt1f(a.val[2])>>

SameLine(a, b) ==
  /\ a.id = b.id
  /\ SamePoints(a.polygon, b.polygon)
  /\ SamePoints(a.baseline, b.baseline)
  /\ a.transcription = b.transcription
  /\ SameHeights(a.heights, b.heights)

SameRegion(a, b) ==
  /\ a.id = b.id
  /\ IntPoints(a.polygon) = b.polygon
  /\ a.transcription = b.transcription
  /\ Len(a.lines) = Len(b.lines)
  /\ \A j \in DOMAIN a.lines : SameLine(a.lines[j], b.lines[j])

SameLayout(a, b) ==
  /\ a.id = b.id
  /\ a.page_size = b.page_size
  /\ Len(a.regions) = Len(b.regions)
  /\ \A i \in DOMAIN a.regions : SameRegion(a.regions[i], b.regions[i])

\* C4: a layout read by from_pagexml, written by to_pagexml_string and read
\* by a fresh PageLayout gives the same page id and size, the same regions
\* (ids, integer polygons, transcriptions) and the same lines (ids, polygons,
\* baselines, transcriptions with None and '' kept apart, heights through the
\* heights_v2 encoding), also for lines without polygon, baseline or heights.
C4_PageRoundTrip ==
  /\ page_pc = "written" => xml_out.status = "ok"
  /\ page_pc = "reloaded" => /\ reload_status = "ok"
                             /\ SameLayout(layout, layout2)

\* The TextLine element a loaded line was read from.
LineElOf(i, j) == file.regions[i].lines[j]

\* C5: a legacy heights attribute with 4 numbers [a,b,c,d] gives (a, c), with
\* 3 numbers [a,b,c] gives (b, c - a), with 2 numbers [a,b] gives (a, b); and
\* every loaded line's heights is None or a pair.
C5_LegacyHeights ==
  (page_pc = "loaded" /\ load_status = "ok") =>
    \A i \in DOMAIN layout.regions :
      \A j \in DOMAIN layout.regions[i].lines :
        LET h == layout.regions[i].lines[j].heights
            c == LineElOf(i, j).custom
            n == c.nums
        IN /\ (c.has /\ c.kind = "legacy" /\ Len(n) = 4)
                => h = Some(<<Px(n[1]), Px(n[3])>>)
           /\ (c.has /\ c.kind = "legacy" /\ Len(n) = 3)
                => h = Some(<<Px(n[2]), Px(n[3] - n[1])>>)
           /\ (c.has /\ c.kind = "legacy" /\ Len(n) = 2)
                => h = Some(<<Px(n[1]), Px(n[2])>>)
           /\ (~h.has \/ Len(h.val) = 2)

\* C8: a from_pagexml that fails leaves the PageLayout's id, page_size and
\* regions as they were before the call.
C8_FailedLoadLeavesLayout ==
  [][(page_pc = "fresh" /\ page_pc' = "loaded" /\ load_status' # "ok")
       => layout' = layout]_vars

----------------------------------------------------------------------------
\* Properties of the logits snapshot and of the export's prerequisites.

LinesOf(page) == AllLines(page.regions, 1)

LineIdsOf(page) == [k \in DOMAIN LinesOf(page) |-> LinesOf(page)[k].id]

\* A line with a non-empty transcription.
HasText(line) == line.transcription.has /\ line.transcription.val # <<>>

\* A line with a non-empty transcription and no logits, no alphabet or no
\* baseline.
LacksPrerequisite(line) ==
  /\ HasText(line)
  /\ ~line.logits.has \/ ~line.characters.has \/ ~line.baseline.has

\* The outcomes of a deliberate report: the specification's error class, and
\* the class the code raises where it does check for missing data (lines 421,
\* 423 and 446).  Every other outcome is the exception of a failed operation.
ExplicitErrors == {"MissingPrerequisite", "Exception"}

\* C3: to_altoxml_string on a page with a line that has a non-empty
\* transcription but no logits, no alphabet or no baseline ends in an explicit
\* missing-prerequisite error and returns no document, and the page, its
\* regions and its lines are afterwards what they were before the call.
C3_MissingPrerequisiteFails ==
  [][(logits_pc # "exported" /\ logits_pc' = "exported"
      /\ \E k \in DOMAIN LinesOf(loader) : LacksPrerequisite(LinesOf(loader)[k]))
       => /\ alto_out'.status \in ExplicitErrors
          /\ alto_out'.lines = <<>>
          /\ loader' = loader]_vars

UniqueIds(ids) == \A i, j \in DOMAIN ids : ids[i] = ids[j] => i = j

\* C6: after save_logits on a page whose lines all have logits and an
\* alphabet, load_logits on a page with the same line ids succeeds and leaves
\* every line with the matrix and the alphabet its line had at save time, for
\* every line id, 'line_characters' included.
C6_SnapshotRoundTrip ==
  (/\ logits_pc = "loaded"
   /\ snapshot = save_logits(saver)
   /\ snapshot.status = "ok"
   /\ UniqueIds(LineIdsOf(saver))
   /\ LineIdsOf(loader) = LineIdsOf(saver))
    => /\ logits_status = "ok"
       /\ \A k \in DOMAIN LinesOf(loader) :
            /\ LinesOf(loader)[k].logits = LinesOf(saver)[k].logits
            /\ LinesOf(loader)[k].characters = LinesOf(saver)[k].characters

\* C7: load_logits raises its missing-line Exception when some line id of the
\* page is not a key of the snapshot, and otherwise succeeds and leaves logits
\* on every line, also for a snapshot without the alphabet mapping.
C7_LoadLogitsOutcome ==
  logits_pc = "loaded" =>
    LET ids == Range(LineIdsOf(loader))
    IN /\ (\E id \in ids : id \notin DOMAIN snapshot.dict)
            => logits_status = "Exception"
       /\ (\A id \in ids : id \in DOMAIN snapshot.dict)
            => /\ logits_status = "ok"
               /\ \A k \in DOMAIN LinesOf(loader) : LinesOf(loader)[k].logits.has

----------------------------------------------------------------------------
\* Properties of the ALTO print space.

RegionBoxes(page) == {BoxOf(page.regions[i].polygon) : i \in DOMAIN page.regions}

\* Every region box lies inside the page (page_size is height, width in pixels).
RegionsInsidePage(page) ==
  \A b \in RegionBoxes(page) :
    /\ b.VPOS >= 0 /\ b.HPOS >= 0
    /\ b.VPOS + b.HEIGHT <= 2 * page.page_size[1]
    /\ b.HPOS + b.WIDTH <= 2 * page.page_size[2]

\* C11: after to_altoxml_string on a page with at least one region, all inside
\* the page, PrintSpace VPOS and HPOS are the least top and the least left of
\* the region boxes, and VPOS + HEIGHT and HPOS + WIDTH are their greatest
\* bottom and greatest right.
C11_PrintSpaceEnvelope ==
  (/\ logits_pc = "exported"
   /\ alto_out.status = "ok"
   /\ loader.regions # <<>>
   /\ RegionsInsidePage(loader))
    => LET ps == alto_out.print_space
           B == RegionBoxes(loader)
       IN /\ ps.VPOS = SetMin({b.VPOS : b \in B})
          /\ ps.HPOS = SetMin({b.HPOS : b \in B})
          /\ ps.VPOS + ps.HEIGHT = SetMax({b.VPOS + b.HEIGHT : b \in B})
          /\ ps.HPOS + ps.WIDTH = SetMax({b.HPOS + b.WIDTH : b \in B})

----------------------------------------------------------------------------
\* Properties of the projection onto the crop grid.

\* The grid columns c of a grid `width` wide with lo * k <= c < hi * k after
\* truncation, k = width / (4 * frames).
ColumnsBetween(lo, hi, width, frames) ==
  {c \in 0..(width - 1) : Scale(lo, width, frames) <= c /\ c < Scale(hi, width, frames)}

\* C12: the columns sampled for a word are exactly [hpos * k, (hpos + width) * k),
\* hpos = 4 x the word's start frame, width = its end column - hpos; the gap
\* of a word that is not the last is sampled from the columns between the
\* word's end column and the next word's detected start column.
C12_ProjectionRange ==
  (line_pc = "done" /\ Len(aligned) > 0) =>
    \A w \in DOMAIN line_out.strings :
      LET r == line_out.strings[w]
          end == r.string_hpos + r.string_width
      IN /\ r.cols = ColumnsBetween(r.string_hpos, end, grid_width, Len(aligned))
         /\ r.has_gap =>
              r.gap_cols = ColumnsBetween(end, r.end_of_space, grid_width, Len(aligned))

----------------------------------------------------------------------------
\* Properties of the ALTO reader.

\* C13: for a Dialect B document, from_altoxml_string ends as from_altoxml
\* does on a file with the same bytes, and gives the same page id, page size,
\* regions and lines.
C13_StringReadsAsFile ==
  (/\ alto_file.dialect = "alto"
   /\ alto_status # "none"
   /\ alto_str_status # "none")
    => /\ alto_str_status = alto_status
       /\ alto_str_page = alto_page

\* The TextLine element line j of region i of the read page came from.
AltoLineElOf(i, j) == alto_file.alto.blocks[i].lines[j]

\* C14: a line read by from_altoxml with VPOS <= BASELINE <= VPOS + HEIGHT has
\* heights[0] = BASELINE - VPOS and heights[1] = VPOS + HEIGHT - BASELINE.
C14_AltoHeightsOrder ==
  (alto_file.dialect = "alto" /\ alto_status = "ok") =>
    \A i \in DOMAIN alto_page.regions :
      \A j \in DOMAIN alto_page.regions[i].lines :
        LET el == AltoLineElOf(i, j)
            b == el.BASELINE.val
        IN (el.VPOS <= b /\ b <= el.VPOS + el.HEIGHT)
             => alto_page.regions[i].lines[j].heights
                  = Some(<<Px(b - el.VPOS), Px(el.VPOS + el.HEIGHT - b)>>)

====
